---------------------------- MODULE Spec2Model ----------------------------
(***************************************************************************)
(* The two programs of the repository as state machines.                   *)
(*                                                                         *)
(*  - sudoku-solver.rs: solve_sudoku is a recursive depth-first search;    *)
(*    its call stack is the variable "stack".                              *)
(*  - tic-tac-toe.rs: a Board of nine cells with place, wins and is_draw.  *)
(***************************************************************************)
EXTENDS Integers, Sequences, FiniteSets

VARIABLES
    input,      \* the grid the outermost solve_sudoku call was given
    grid,       \* the local grid of the innermost solve_sudoku call
    stack,      \* call stack of solve_sudoku: frames [l, i], innermost last
    ret,        \* value of the call that returned last: "none", "true", "false"
    retGrid,    \* the local grid of that call at the moment it returned
    printed,    \* the grids passed to print_grid, in order
    history,    \* the finished runs that were followed by another run
    cells,      \* Board.cells, index 0..8 (row-major)
    call,       \* arguments of the last Board::place call
    result      \* what the last Board::place call returned

sudokuVars == <<input, grid, stack, ret, retGrid, printed, history>>
boardVars == <<cells, call, result>>
vars == <<input, grid, stack, ret, retGrid, printed, history, cells, call, result>>

----------------------------------------------------------------------------
(* Bounds of the model *)

\* how many cells of a full grid an input grid may have erased
MaxBlanks == 4
\* how many times the solver is applied in a row (to the grid it printed)
MaxRuns == 2
\* recursion depth of solve_sudoku up to which the run of main is followed step by step
StepDepth == 6

----------------------------------------------------------------------------
(* Grids *)

Idx == 0..8
Digits == 1..9

\* a grid literal [[..; 9]; 9] as the function grid[row][col], rows and columns 0..8
GridOf(rows) == [r \in Idx |-> [c \in Idx |-> rows[r + 1][c + 1]]]

initial_grid ==
    GridOf(<< <<0, 4, 3, 0, 0, 0, 0, 0, 9>>,
              <<0, 0, 0, 6, 0, 0, 0, 0, 5>>,
              <<0, 0, 0, 0, 0, 4, 1, 0, 0>>,
              <<9, 0, 1, 0, 5, 0, 0, 0, 0>>,
              <<0, 0, 0, 7, 2, 6, 0, 0, 0>>,
              <<0, 0, 8, 0, 1, 0, 0, 0, 0>>,
              <<0, 1, 0, 0, 0, 0, 7, 2, 0>>,
              <<7, 0, 0, 0, 0, 0, 0, 0, 0>>,
              <<2, 0, 0, 0, 0, 5, 0, 6, 0>> >>)

\* line 18: the inner loop, entered for a row that holds a 0
RECURSIVE find_empty_col(_, _)
find_empty_col(line, col) ==
    IF line[col] = 0 THEN col ELSE find_empty_col(line, col + 1)

\* line 17: the outer loop; (9, 9) when no row holds a 0
RECURSIVE find_empty_row(_, _)
find_empty_row(g, row) ==
    IF row = 9 THEN <<9, 9>>
    ELSE IF \E col \in Idx : g[row][col] = 0 THEN <<row, find_empty_col(g[row], 0)>>
    ELSE find_empty_row(g, row + 1)

\* faulty variant: the scan runs column by column
find_empty_colmajor(g) ==
    LET t == [c \in Idx |-> [r \in Idx |-> g[r][c]]]
        p == find_empty_row(t, 0)
    IN  IF p = <<9, 9>> THEN p ELSE <<p[2], p[1]>>

\* faulty variant: a grid without an empty cell is reported as its last cell
find_empty_no_sentinel(g) ==
    LET p == find_empty_row(g, 0)
    IN  IF p = <<9, 9>> THEN <<8, 8>> ELSE p

\* the position of the first 0 in row-major order, (9, 9) when there is none
find_empty(g) == find_empty_row(g, 0)

\* faulty variant: the scan covers all nine rows
used_in_col_all_rows(g, col, num) == \E i \in 0..8 : g[i][col] = num

\* for i in 0..8: the half-open range is rows 0..7
used_in_col(g, col, num) == \E i \in 0..7 : g[i][col] = num

used_in_row(g, row, num) == \E c \in Idx : g[row][c] = num

\* faulty variant: the box corner is not rounded down to a multiple of 3
used_in_box_unaligned(g, row, col, num) ==
    \E i \in 0..2, j \in 0..2 :
        /\ i + row \in Idx
        /\ j + col \in Idx
        /\ g[i + row][j + col] = num

used_in_box(g, row, col, num) ==
    LET first_cell_row == row - (row % 3)
        first_cell_column == col - (col % 3)
    IN  \E i \in 0..2, j \in 0..2 :
            g[i + first_cell_row][j + first_cell_column] = num

\* faulty variant: the row is not checked
is_location_safe_no_row(g, row, col, num) ==
    /\ ~used_in_col(g, col, num)
    /\ ~used_in_box(g, row, col, num)

is_location_safe(g, row, col, num) ==
    /\ ~used_in_col(g, col, num)
    /\ ~used_in_row(g, row, num)
    /\ ~used_in_box(g, row, col, num)

----------------------------------------------------------------------------
(* solve_sudoku *)

(***************************************************************************)
(* The grid parameter is a [[i8; 9]; 9], which is Copy: line 37 hands the  *)
(* callee a copy, and the caller keeps its own grid, which nothing touches *)
(* while the caller is suspended in line 37.  The variable "grid" is the   *)
(* local grid of the innermost (running) call.  A call writes its grid     *)
(* only in lines 36 and 40, and only at grid[l.0][l.1], which find_empty   *)
(* found to be 0 on entry; so the grid a call was entered with, which is   *)
(* its suspended caller's grid, is the call's grid with that one cell      *)
(* zero again: EntryGrid.  When a call returns, its own grid is dropped    *)
(* (kept in retGrid for inspection) and "grid" becomes the caller's.       *)
(***************************************************************************)
EntryGrid(g, l) == IF l = <<9, 9>> THEN g ELSE [g EXCEPT ![l[1]][l[2]] = 0]

\* entry of solve_sudoku(grid), line 29; i is the loop variable of line 34
Frame(g) == [l |-> find_empty(g), i |-> 1]

Top == stack[Len(stack)]
Pop == SubSeq(stack, 1, Len(stack) - 1)

\* lines 34-35: the loop variable runs from i on to the first digit that passes
\* is_location_safe, or to 10 when none does
RECURSIVE first_safe(_, _, _)
first_safe(g, l, i) ==
    IF i >= 10 THEN 10
    ELSE IF is_location_safe(g, l[1], l[2], i) THEN i
    ELSE first_safe(g, l, i + 1)

\* lines 30-33: no empty cell; print the grid and return true
Solved ==
    /\ ret = "none"
    /\ stack # <<>>
    /\ Top.l = <<9, 9>>
    /\ printed' = Append(printed, grid)
    /\ ret' = "true"
    /\ retGrid' = grid
    /\ grid' = EntryGrid(grid, Top.l)
    /\ stack' = Pop
    /\ UNCHANGED <<input, history, boardVars>>

\* faulty variant: the digit is not written to the grid before the recursive call
Place_no_write ==
    /\ ret = "none"
    /\ stack # <<>>
    /\ Top.l # <<9, 9>>
    /\ LET n == first_safe(grid, Top.l, Top.i)
       IN  /\ n # 10
           /\ grid' = grid
           /\ stack' = Append([stack EXCEPT ![Len(stack)] = [l |-> Top.l, i |-> n]],
                              Frame(grid))
    /\ UNCHANGED <<input, ret, retGrid, printed, history, boardVars>>

\* lines 34-37: the first safe digit is placed and solve_sudoku is called on the grid
Place ==
    /\ ret = "none"
    /\ stack # <<>>
    /\ Top.l # <<9, 9>>
    /\ LET n == first_safe(grid, Top.l, Top.i)
           g == [grid EXCEPT ![Top.l[1]][Top.l[2]] = n]
       IN  /\ n # 10
           /\ grid' = g
           /\ stack' = Append([stack EXCEPT ![Len(stack)] = [l |-> Top.l, i |-> n]],
                              Frame(g))
    /\ UNCHANGED <<input, ret, retGrid, printed, history, boardVars>>

\* line 43: the loop ends with no safe digit left; return false
Exhausted ==
    /\ ret = "none"
    /\ stack # <<>>
    /\ Top.l # <<9, 9>>
    /\ first_safe(grid, Top.l, Top.i) = 10
    /\ ret' = "false"
    /\ retGrid' = grid
    /\ grid' = EntryGrid(grid, Top.l)
    /\ stack' = Pop
    /\ UNCHANGED <<input, printed, history, boardVars>>

\* faulty variant: the placed digit is not reset
Undo_no_reset ==
    /\ ret = "false"
    /\ stack # <<>>
    /\ stack' = [stack EXCEPT ![Len(stack)] = [l |-> Top.l, i |-> Top.i + 1]]
    /\ ret' = "none"
    /\ UNCHANGED <<input, grid, retGrid, printed, history, boardVars>>

\* line 40: the recursive call returned false; reset the cell, go on with the next digit
Undo ==
    /\ ret = "false"
    /\ stack # <<>>
    /\ grid' = [grid EXCEPT ![Top.l[1]][Top.l[2]] = 0]
    /\ stack' = [stack EXCEPT ![Len(stack)] = [l |-> Top.l, i |-> Top.i + 1]]
    /\ ret' = "none"
    /\ UNCHANGED <<input, retGrid, printed, history, boardVars>>

\* faulty variant: a successful recursive call is treated like a failed one
Propagate_keeps_searching ==
    /\ ret = "true"
    /\ stack # <<>>
    /\ grid' = [grid EXCEPT ![Top.l[1]][Top.l[2]] = 0]
    /\ stack' = [stack EXCEPT ![Len(stack)] = [l |-> Top.l, i |-> Top.i + 1]]
    /\ ret' = "none"
    /\ UNCHANGED <<input, retGrid, printed, history, boardVars>>

\* lines 37-38: the recursive call returned true; return true
Propagate ==
    /\ ret = "true"
    /\ stack # <<>>
    /\ ret' = "true"
    /\ retGrid' = grid
    /\ grid' = EntryGrid(grid, Top.l)
    /\ stack' = Pop
    /\ UNCHANGED <<input, printed, history, boardVars>>

\* lines 34-35: the digits the loop finds safe for the empty cell l
safe_digits(g, l) == {i \in Digits : is_location_safe(g, l[1], l[2], i)}

\* line 36
placed(g, l, i) == [g EXCEPT ![l[1]][l[2]] = i]

\* the value solve_sudoku(grid) returns once line 29 has found l: true in line 32, or in
\* line 38 for a safe digit on which the recursive call of line 37 returns true
RECURSIVE solve_sudoku_from(_, _)
solve_sudoku_from(g, l) ==
    \/ l = <<9, 9>>
    \/ \E i \in safe_digits(g, l) :
          solve_sudoku_from(placed(g, l, i), find_empty(placed(g, l, i)))

\* the value solve_sudoku(grid) returns
solve_sudoku(g) == solve_sudoku_from(g, find_empty(g))

\* the digit at which the loop of line 34 ends in line 38: the first safe one on which
\* the recursive call returns true
returning_digit(g, l) ==
    CHOOSE i \in safe_digits(g, l) :
        /\ solve_sudoku(placed(g, l, i))
        /\ \A j \in safe_digits(g, l) : j < i => ~solve_sudoku(placed(g, l, j))

\* the grid print_grid is called on (line 31) in a call solve_sudoku(grid) that returns true
RECURSIVE print_grid(_)
print_grid(g) ==
    LET l == find_empty(g)
    IN  IF l = <<9, 9>> THEN g
        ELSE print_grid(placed(g, l, returning_digit(g, l)))

\* the local grid of a call solve_sudoku(grid) at its return: as on entry after line 43,
\* with the returning digit in the empty cell after line 38
returned_grid(g, r) ==
    LET l == find_empty(g)
    IN  IF r /\ l # <<9, 9>> THEN placed(g, l, returning_digit(g, l))
        ELSE g

\* lines 34-37 in a call less than StepDepth levels deep
PlaceShallow == Len(stack) < StepDepth /\ Place

\* lines 34-37 in a call StepDepth levels deep: the first safe digit is placed and the
\* recursive call runs to its return in one step
Descend ==
    /\ ret = "none"
    /\ stack # <<>>
    /\ Len(stack) >= StepDepth
    /\ Top.l # <<9, 9>>
    /\ LET n == first_safe(grid, Top.l, Top.i)
           g == [grid EXCEPT ![Top.l[1]][Top.l[2]] = n]
       IN  /\ n # 10
           /\ grid' = g
           /\ stack' = [stack EXCEPT ![Len(stack)] = [l |-> Top.l, i |-> n]]
           /\ \E r \in {solve_sudoku(g)} :
                 /\ ret' = IF r THEN "true" ELSE "false"
                 /\ retGrid' = returned_grid(g, r)
                 /\ printed' = IF r THEN Append(printed, print_grid(g)) ELSE printed
    /\ UNCHANGED <<input, history, boardVars>>

\* the outermost call has returned
Done == stack = <<>> /\ ret # "none"

\* solve_sudoku applied once more, to the grid the finished run printed
Resolve ==
    /\ Done
    /\ ret = "true"
    /\ printed # <<>>
    /\ Len(history) < MaxRuns - 1
    /\ history' = Append(history, [input |-> input, ret |-> ret, printed |-> printed])
    /\ input' = printed[Len(printed)]
    /\ grid' = printed[Len(printed)]
    /\ stack' = <<Frame(printed[Len(printed)])>>
    /\ ret' = "none"
    /\ retGrid' = printed[Len(printed)]
    /\ printed' = <<>>
    /\ UNCHANGED boardVars

----------------------------------------------------------------------------
(* Input grids: full grids with some cells erased *)

\* a valid solved grid
Base ==
    GridOf(<< <<5, 6, 3, 2, 8, 1, 4, 7, 9>>,
              <<1, 9, 2, 4, 3, 7, 6, 8, 5>>,
              <<8, 4, 7, 5, 9, 6, 1, 3, 2>>,
              <<9, 7, 1, 8, 5, 3, 2, 6, 4>>,
              <<3, 5, 6, 7, 2, 4, 9, 1, 8>>,
              <<4, 2, 8, 6, 1, 9, 3, 5, 7>>,
              <<6, 1, 5, 9, 4, 8, 7, 2, 3>>,
              <<7, 8, 4, 3, 6, 2, 5, 9, 1>>,
              <<2, 3, 9, 1, 7, 5, 8, 4, 6>> >>)

\* Base with the first two cells of the last row exchanged: a full grid that is
\* not a solution (columns 0 and 1 repeat a digit)
Twisted == [Base EXCEPT ![8][0] = Base[8][1], ![8][1] = Base[8][0]]

BlankCells ==
    {<<0, 1>>, <<0, 2>>, <<0, 8>>, <<1, 1>>, <<3, 7>>, <<3, 8>>,
     <<4, 0>>, <<4, 6>>, <<5, 1>>, <<7, 7>>, <<8, 0>>, <<8, 8>>}

Erase(g, K) == [r \in Idx |-> [c \in Idx |-> IF <<r, c>> \in K THEN 0 ELSE g[r][c]]]

Inputs ==
    {Erase(full, K) : full \in {Base, Twisted},
                   K \in {S \in SUBSET BlankCells : Cardinality(S) <= MaxBlanks}}

----------------------------------------------------------------------------
(* tic-tac-toe.rs: Board *)

WIDTH == 3
SIZE == WIDTH * WIDTH

Player == {"Nought", "Cross"}

\* enum Cell { Occupied(Player), Vacant }
Vacant == "Vacant"
Occupied(player) == player

is_vacant(cell) == cell = Vacant
is_occupied(cell) == ~is_vacant(cell)

\* Pos::new(pos) is Some exactly for 1..=SIZE
Pos == {pos \in 0..(SIZE + 1) : 1 <= pos /\ pos <= SIZE}

\* Board::new()
Board_new == [k \in 0..(SIZE - 1) |-> Vacant]

\* faulty variant: the error names the player passed in instead of the occupant
Board_place_reports_caller(c, pos, player) ==
    IF is_occupied(c[pos - 1])
    THEN [cells |-> c, result |-> [ok |-> FALSE, pos |-> pos, occupied_by |-> player]]
    ELSE [cells |-> [c EXCEPT ![pos - 1] = Occupied(player)],
          result |-> [ok |-> TRUE, pos |-> pos, occupied_by |-> "none"]]

\* faulty variant: an occupied cell is overwritten
Board_place_overwrites(c, pos, player) ==
    [cells |-> [c EXCEPT ![pos - 1] = Occupied(player)],
     result |-> [ok |-> TRUE, pos |-> pos, occupied_by |-> "none"]]

\* Board::place: the board after the call and the Result it returns; in the match
\* arm Cell::Occupied(player) the name player is bound to the occupant
Board_place(c, pos, player) ==
    IF is_occupied(c[pos - 1])
    THEN [cells |-> c,
          result |-> [ok |-> FALSE, pos |-> pos, occupied_by |-> c[pos - 1]]]
    ELSE [cells |-> [c EXCEPT ![pos - 1] = Occupied(player)],
          result |-> [ok |-> TRUE, pos |-> pos, occupied_by |-> "none"]]

\* the indices cells.iter().skip(skip).step_by(step) yields
StepBy(skip, step) ==
    IF skip >= SIZE THEN <<>>
    ELSE [j \in 1..((SIZE - 1 - skip) \div step + 1) |-> skip + (j - 1) * step]

\* .take(n)
Take(s, n) == SubSeq(s, 1, IF n < Len(s) THEN n ELSE Len(s))

\* cells.chunks(WIDTH)
rows == [n \in 1..(SIZE \div WIDTH) |-> [j \in 1..WIDTH |-> (n - 1) * WIDTH + (j - 1)]]

columns == [n \in 1..WIDTH |-> StepBy(n - 1, WIDTH)]

\* faulty variant: the minor diagonal is not cut off after WIDTH cells
diagonals_untaken ==
    <<Take(StepBy(0, WIDTH + 1), WIDTH), StepBy(WIDTH - 1, WIDTH - 1)>>

diagonals ==
    <<Take(StepBy(0, WIDTH + 1), WIDTH), Take(StepBy(WIDTH - 1, WIDTH - 1), WIDTH)>>

occupied_by(c, line, player) == \A j \in 1..Len(line) : c[line[j]] = Occupied(player)

wins(c, player) ==
    \/ \E n \in 1..Len(rows) : occupied_by(c, rows[n], player)
    \/ \E n \in 1..Len(columns) : occupied_by(c, columns[n], player)
    \/ \E n \in 1..Len(diagonals) : occupied_by(c, diagonals[n], player)

is_complete(c) == \A k \in 0..(SIZE - 1) : is_occupied(c[k])

is_draw(c) == is_complete(c) /\ ~wins(c, "Nought") /\ ~wins(c, "Cross")

\* a call board.place(pos, player)
PlaceCall ==
    /\ \E pos \in Pos, player \in Player :
          /\ call' = [pos |-> pos, player |-> player]
          /\ cells' = Board_place(cells, pos, player).cells
          /\ result' = Board_place(cells, pos, player).result
    /\ UNCHANGED sudokuVars

\* no Board::place call yet
BoardIdle ==
    /\ cells = Board_new
    /\ call = [pos |-> 0, player |-> "none"]
    /\ result = [ok |-> TRUE, pos |-> 0, occupied_by |-> "none"]

----------------------------------------------------------------------------
(* Specifications *)

\* main line 13 with any of the input grids
Init ==
    /\ input \in Inputs
    /\ grid = input
    /\ stack = <<Frame(input)>>
    /\ ret = "none"
    /\ retGrid = input
    /\ printed = <<>>
    /\ history = <<>>
    /\ BoardIdle

\* main lines 2-13
InitMain ==
    /\ input = initial_grid
    /\ grid = input
    /\ stack = <<Frame(input)>>
    /\ ret = "none"
    /\ retGrid = input
    /\ printed = <<>>
    /\ history = <<>>
    /\ BoardIdle

\* the run of main: the calls below level StepDepth are taken as single steps
NextMain == PlaceShallow \/ Descend \/ Exhausted \/ Undo \/ Propagate

Next == Solved \/ Place \/ Exhausted \/ Undo \/ Propagate \/ Resolve

\* Board::new(); solve_sudoku is not running
InitBoard ==
    /\ input = initial_grid
    /\ grid = input
    /\ stack = <<>>
    /\ ret = "none"
    /\ retGrid = input
    /\ printed = <<>>
    /\ history = <<>>
    /\ BoardIdle

NextBoard == PlaceCall

Spec == Init /\ [][Next]_vars

\* the solver runs without interruption: a step is taken whenever one is possible
FairSpec == Spec /\ WF_vars(Next)

SpecBoard == InitBoard /\ [][NextBoard]_vars

SpecMain == InitMain /\ [][NextMain]_vars

----------------------------------------------------------------------------
(* Vocabulary of the properties *)

Cells == Idx \X Idx
At(g, p) == g[p[1]][p[2]]

RowCells(r) == {<<r, c>> : c \in Idx}
ColCells(c) == {<<r, c>> : r \in Idx}
BoxCells(b) == {<<3 * (b \div 3) + i, 3 * (b % 3) + j>> : i \in 0..2, j \in 0..2}
Units == {RowCells(r) : r \in Idx} \cup {ColCells(c) : c \in Idx} \cup {BoxCells(b) : b \in Idx}

Zeros(g) == Cardinality({p \in Cells : At(g, p) = 0})

\* no digit twice among the non-zero cells of a row, a column or a box
Consistent(g) ==
    \A U \in Units : \A p, q \in U : (p # q /\ At(g, p) # 0) => At(g, p) # At(g, q)

\* every row, column and box holds each digit 1..9 (so exactly once, and no zero)
ValidSolution(g) == \A U \in Units : {At(g, p) : p \in U} = Digits

\* the grid has a valid Sudoku completion
RECURSIVE Completable(_)
Completable(g) ==
    LET E == {p \in Cells : At(g, p) = 0}
    IN  IF E = {} THEN ValidSolution(g)
        ELSE LET p == CHOOSE q \in E : TRUE
             IN  \E n \in Digits :
                    /\ \A U \in Units : p \in U => \A q \in U : At(g, q) # n
                    /\ Completable([g EXCEPT ![p[1]][p[2]] = n])

\* position of a cell in row-major order
RowMajor(p) == 9 * p[1] + p[2]

----------------------------------------------------------------------------
(* C1 *)

\* C1: whenever solve_sudoku returns true on an input grid whose non-zero cells are
\* mutually consistent, the grid it passes to print_grid is a valid solution: no zero
\* cell, each digit 1..9 exactly once in every row, column and box.
C1_PrintedGridIsSolution ==
    (Consistent(input) /\ ret = "true") =>
        \A k \in 1..Len(printed) : ValidSolution(printed[k])

----------------------------------------------------------------------------
(* C5 *)

\* C5: for every grid, cell position and digit num, is_location_safe returns true only
\* if num occurs in none of the 9 cells of the row, none of the 9 cells of the column
\* and none of the 9 cells of the 3x3 box of the position.
C5_SafeOnlyIfUnused ==
    \A r \in Idx, c \in Idx, num \in Digits :
        is_location_safe(grid, r, c, num) =>
            /\ \A q \in RowCells(r) : At(grid, q) # num
            /\ \A q \in ColCells(c) : At(grid, q) # num
            /\ \A i \in 0..2, j \in 0..2 : grid[(r - (r % 3)) + i][(c - (c % 3)) + j] # num

----------------------------------------------------------------------------
(* C8 *)

\* C8: starting from an input grid whose non-zero cells are mutually consistent, in
\* every state reached during the search no digit appears twice among the non-zero
\* cells of any row, column or box.
C8_SearchKeepsConsistency == Consistent(input) => Consistent(grid)

----------------------------------------------------------------------------
(* C3 *)

\* C3: for an input grid that has no valid Sudoku completion, solve_sudoku returns
\* false, never calls print_grid, and at the moment it returns its grid is equal to
\* the input grid.  Stated here for the inputs whose non-zero cells are mutually
\* consistent.
C3_UnsolvableReturnsFalse ==
    (Consistent(input) /\ ~Completable(input)) =>
        /\ printed = <<>>
        /\ Done => (ret = "false" /\ retGrid = input)

----------------------------------------------------------------------------
(* C4 *)

\* C4: on a grid without a zero cell solve_sudoku returns true at once: no recursive
\* call is made and no digit is placed, the printed grid is the input grid; and
\* applying solve_sudoku again to the grid a run printed gives the same result.
C4_SolvedGridUnchanged ==
    /\ Zeros(input) = 0 =>
          /\ Len(stack) <= 1
          /\ grid = input
          /\ ret # "false"
          /\ Done => (ret = "true" /\ printed = <<input>> /\ retGrid = input)
    /\ (history # <<>> /\ Done) =>
          /\ input = history[Len(history)].printed[1]
          /\ ret = history[Len(history)].ret
          /\ printed = history[Len(history)].printed

\* a second run, on the grid the first run printed, has returned
C4_Witness == Done /\ history # <<>> /\ Zeros(input) = 0 /\ printed = <<input>>

----------------------------------------------------------------------------
(* C9 *)

\* the recursion is as deep as digits are placed: a call waiting for its callee, or
\* about to undo, holds one zero fewer than the grid it was entered with
C9_Depth ==
    /\ Len(stack) <= Zeros(input) + 1
    /\ \A k \in 1..Len(stack) :
          /\ stack[k].i \in 1..10
          /\ k < Len(stack) => (stack[k].i \in Digits /\ At(grid, stack[k].l) = stack[k].i)
    /\ (stack # <<>> /\ ret = "none") => Zeros(grid) = Zeros(input) - (Len(stack) - 1)
    /\ (stack # <<>> /\ ret # "none") => Zeros(grid) = Zeros(input) - Len(stack)

\* C9: solve_sudoku terminates on every input grid; each recursive call is made on a
\* grid with exactly one empty cell fewer than its caller's, so the recursion depth
\* never exceeds the number of zero cells of the input plus one, and each call tries
\* at most the nine digits 1..9.
C9_Terminates == []C9_Depth /\ <>[]Done

\* a search that backtracked, at its deepest possible call
C9_Witness ==
    /\ Zeros(input) >= 3
    /\ Len(stack) = Zeros(input) + 1
    /\ \E k \in 1..Len(stack) : stack[k].i > 1 /\ stack[k].l # <<9, 9>>

----------------------------------------------------------------------------
(* C10 *)

\* every call works on the first empty cell, in row-major order, of the grid it was
\* entered with; at most one grid is printed, and then the result is true
C10_Order ==
    /\ Len(printed) <= 1
    /\ printed # <<>> => (ret = "true" /\ Zeros(printed[1]) = 0)
    /\ \A k \in 1..Len(stack) :
          /\ stack[k].l = <<9, 9>> => (k = Len(stack) /\ Zeros(grid) = 0)
          /\ stack[k].l # <<9, 9>> =>
                /\ \A p \in Cells : RowMajor(p) < RowMajor(stack[k].l) => At(grid, p) # 0
                /\ k < Len(stack) => At(grid, stack[k].l) = stack[k].i

\* within one run: the loop variable of a call only grows and a new call starts at 1;
\* once a grid is printed every step is a return of true that leaves the digits of
\* the calls still on the stack, and the printed grid, as they are
C10_Step ==
    history' = history =>
        /\ \A k \in 1..Len(stack') :
              IF k <= Len(stack)
              THEN stack'[k].l = stack[k].l /\ stack'[k].i >= stack[k].i
              ELSE stack'[k].i = 1 /\ k = Len(stack) + 1
        /\ printed # <<>> =>
              /\ printed' = printed
              /\ ret' = "true"
              /\ stack' = Pop
              /\ Top.l # <<9, 9>>
              /\ At(retGrid', Top.l) = Top.i
              /\ At(printed[1], Top.l) = Top.i

\* C10: the search stops at the first solution: each level takes the first empty
\* cell in row-major order and tries the digits in ascending order; once no empty
\* cell is left print_grid is called exactly once and every enclosing call returns
\* true without placing or undoing a digit, so no second solution is explored.
C10_FirstSolutionOnly == []C10_Order /\ [][C10_Step]_vars

\* a run that backtracked before it found its solution, all calls returned
C10_Witness ==
    /\ Done
    /\ ret = "true"
    /\ Len(printed) = 1
    /\ history = <<>>
    /\ Zeros(input) >= 3
    /\ \E p \in Cells : At(input, p) = 0 /\ At(printed[1], p) > 2

----------------------------------------------------------------------------
(* C2 *)

\* C2: main on the hard-coded puzzle terminates with solve_sudoku returning true; the
\* grid it prints keeps every given digit and has each digit 1..9 once in every row,
\* column and box.
C2_MainSolvesPuzzle ==
    /\ input = initial_grid
    /\ Len(printed) <= 1
    /\ Done =>
          /\ ret = "true"
          /\ Len(printed) = 1
          /\ ValidSolution(printed[1])
          /\ \A p \in Cells : At(initial_grid, p) # 0 => At(printed[1], p) = At(initial_grid, p)

\* the one run of main has ended
C2_Witness == Done /\ input = initial_grid /\ printed # <<>> /\ Zeros(printed[1]) = 0

----------------------------------------------------------------------------
(* C6 *)

\* what a step that calls place(pos, player) does to the board, by the cell at pos
C6_Step ==
    LET k == call'.pos - 1
    IN  /\ cells[k] # Vacant =>
              /\ result' = [ok |-> FALSE, pos |-> call'.pos, occupied_by |-> cells[k]]
              /\ cells' = cells
        /\ cells[k] = Vacant =>
              /\ result'.ok
              /\ cells'[k] = call'.player
              /\ \A j \in 0..8 : j # k => cells'[j] = cells[j]
        /\ \A j \in 0..8 : cells[j] # Vacant => cells'[j] = cells[j]

\* C6: Board::place never overwrites.  On an occupied position it returns
\* Err(PlaceError { pos, occupied_by }) with occupied_by the player in that cell, not
\* the player passed in, and leaves all nine cells unchanged; on a vacant one it
\* returns Ok and changes only that cell, to Occupied(player).  So a cell that became
\* occupied keeps its first occupant.
C6_PlaceNeverOverwrites == [][C6_Step]_vars

\* a place call was refused on a cell held by the other player
C6_Witness ==
    /\ ~result.ok
    /\ result.pos = call.pos
    /\ result.occupied_by # call.player
    /\ cells[call.pos - 1] = result.occupied_by

----------------------------------------------------------------------------
(* C7 *)

\* the eight lines, as positions 1..9
WinLines ==
    {{1, 2, 3}, {4, 5, 6}, {7, 8, 9}, {1, 4, 7}, {2, 5, 8}, {3, 6, 9}, {1, 5, 9}, {3, 5, 7}}

HoldsLine(p) == \E L \in WinLines : \A q \in L : cells[q - 1] = p

\* C7: for every board and player p, wins(p) is true exactly when one of the eight
\* lines (three rows, three columns, the two diagonals) has all three cells
\* Occupied(p); is_draw() is true exactly when all nine cells are occupied and wins
\* is false for both players.
C7_WinsAndDraw ==
    /\ \A p \in Player : wins(cells, p) <=> HoldsLine(p)
    /\ is_draw(cells) <=>
          /\ \A k \in 0..8 : cells[k] # Vacant
          /\ ~HoldsLine("Nought")
          /\ ~HoldsLine("Cross")

\* a full board that Cross wins by the minor diagonal alone
C7_Witness ==
    /\ \A k \in 0..8 : cells[k] # Vacant
    /\ wins(cells, "Cross")
    /\ ~is_draw(cells)
    /\ \A L \in WinLines : (\A q \in L : cells[q - 1] = "Cross") <=> L = {3, 5, 7}

=============================================================================
